---- MODULE Spec2Model ----
(***************************************************************************)
(* Model of the reload/stop action button controller (src/main.js).       *)
(*                                                                         *)
(* The background script is single threaded: every listener, promise      *)
(* continuation and timer callback runs to completion, so each of them is *)
(* one action.  The host (browser) owns the tabs, the clock, the pending  *)
(* timers and the promises that are still in flight.                      *)
(***************************************************************************)
EXTENDS Integers, Sequences, FiniteSets, TLC

\* ------------------------------------------------------------------ bounds
MaxEvents == 2       \* host events delivered, with one tab
MaxTabsEvents == 1   \* host events delivered, with two tabs
MaxNavigations == 3  \* navigation events delivered, when no other event is
MaxTicks == 3        \* steps of the clock
MaxThemeEvents == 2  \* management events delivered, when no other event is

\* Tab ids the host hands out.
Tabs == {1, 2}
OneTab == {1}

\* The clock advances in thirds of the animation length, so that differences
\* of timestamps fall below the length (0, 139, 278) and exactly on it (417).
Ticks == {139}

\* ------------------------------------------------------- program constants
AnimationDuration == 417    \* delay of the settle timer
DebounceWindow == 417       \* least gap between navigations that animates

dark_theme_ids == {"firefox-compact-dark@mozilla.org@personas.mozilla.org"}

\* Theme ids the host may report; the second is some theme that is not dark.
ThemeIds == dark_theme_ids \cup {"default-theme@mozilla.org"}

page_action_title_busy == [msg |-> "page_action_busy_title", arg |-> "Esc"]

Statuses == {"loading", "complete"}

VARIABLES
    tabs,                   \* host: open tab id -> load status
    clock,                  \* host: current time in ms
    timers,                 \* host: pending window.setTimeout timers
    nextTimeoutId,          \* host: id the next setTimeout returns
    inflight,               \* host: promises not yet resolved, oldest first
    events,                 \* number of host events delivered so far
    is_theme_dark,
    page_action_title_idle, \* <<>> while undefined, else <<title>>
    animation_timeouts,     \* Map: tab id -> timeout id
    navigation_timestamp,   \* Map: tab id -> timeStamp
    pageActionShown,        \* tab ids pageAction.show was called for
    pageActionIcon,         \* tab id -> path set with pageAction.setIcon
    browserActionIcon,      \* tab id -> path set with browserAction.setIcon
    pageActionTitle,        \* tab id -> title set with pageAction.setTitle
    browserActionTitle,     \* tab id -> title set with browserAction.setTitle
    reported,               \* history: tab id -> status its last event carried
    navLog,                 \* history: tab id -> navigations handled, in order
    hostCalls,              \* host: tabs.executeScript / tabs.reload calls, in order
    consoleErrors,          \* host: number of console.error calls
    themeDetection,         \* history: <<"pending">>, or what getAll listed
    enabledTheme            \* history: <<id>> of the theme enabled last, or <<>>

vars == <<tabs, clock, timers, nextTimeoutId, inflight, events, is_theme_dark,
          page_action_title_idle, animation_timeouts, navigation_timestamp,
          pageActionShown, pageActionIcon, browserActionIcon, pageActionTitle,
          browserActionTitle, reported, navLog, hostCalls, consoleErrors,
          themeDetection, enabledTheme>>

hostVars == <<tabs, clock>>
iconVars == <<timers, nextTimeoutId, animation_timeouts, pageActionIcon,
              browserActionIcon>>
titleVars == <<pageActionShown, pageActionTitle, browserActionTitle>>
clickVars == <<hostCalls, consoleErrors>>
themeHistory == <<themeDetection, enabledTheme>>

\* ------------------------------------------------------------- Map helpers
MapHas(m, k) == k \in DOMAIN m
MapSet(m, k, v) == [x \in (DOMAIN m) \cup {k} |-> IF x = k THEN v ELSE m[x]]
MapDelete(m, k) == [x \in (DOMAIN m) \ {k} |-> m[x]]
EmptyMap == [x \in {} |-> 0]

Min(S) == CHOOSE x \in S : \A y \in S : x <= y

\* ------------------------------------------------------------ icon assets
TransitionFiles == {"data/reload_to_stop_dark.svg", "data/reload_to_stop_light.svg",
                    "data/stop_to_reload_dark.svg", "data/stop_to_reload_light.svg"}

\* Path of the animated clip, with the cache-bypassing query appended.
AnimatedPath(status, dark, now) ==
    LET reload_icon_path == IF dark THEN "data/reload_to_stop_dark.svg"
                                    ELSE "data/reload_to_stop_light.svg"
        stop_icon_path == IF dark THEN "data/stop_to_reload_dark.svg"
                                  ELSE "data/stop_to_reload_light.svg"
    IN  [file |-> IF status = "loading" THEN stop_icon_path ELSE reload_icon_path,
         query |-> <<"?t=", now>>]

\* Path of the still frame.
StaticPath(status, dark) ==
    LET reload_icon_path == IF dark THEN "data/reload_dark.svg"
                                    ELSE "data/reload_light.svg"
        stop_icon_path == IF dark THEN "data/stop_dark.svg"
                                  ELSE "data/stop_light.svg"
    IN  [file |-> IF status = "loading" THEN stop_icon_path ELSE reload_icon_path,
         query |-> <<>>]

\* ----------------------------------------------------------------- timers
\* window.clearTimeout(id)
ClearTimeout(tm, id) == {x \in tm : x.id # id}

\* Variant: the pending timer is left alone.
CancelPendingNever(tm, map, tabId) == tm

\* Timers left after the cancellation at the head of update_page_action_icon.
CancelPending(tm, map, tabId) ==
    IF MapHas(map, tabId) THEN ClearTimeout(tm, map[tabId]) ELSE tm

\* window.setTimeout(callback, AnimationDuration): the callback keeps `tab`.
SetTimeout(tm, id, tab, now) ==
    tm \cup {[id |-> id, tab |-> tab, due |-> now + AnimationDuration]}

\* The icon state update_page_action_icon reads and writes.
IconState == [timers |-> timers, nextTimeoutId |-> nextTimeoutId,
              animation_timeouts |-> animation_timeouts,
              pageActionIcon |-> pageActionIcon,
              browserActionIcon |-> browserActionIcon]

\* Variant: only the still-frame branch cancels the pending timer.
UpdatePageActionIconStacking(st, tab, is_animated, dark, now) ==
    LET cleared == IF is_animated THEN st.timers
                   ELSE CancelPending(st.timers, st.animation_timeouts, tab.id)
        path == IF is_animated THEN AnimatedPath(tab.status, dark, now)
                               ELSE StaticPath(tab.status, dark)
    IN  [timers |-> IF is_animated
                    THEN SetTimeout(cleared, st.nextTimeoutId, tab, now)
                    ELSE cleared,
         nextTimeoutId |-> IF is_animated THEN st.nextTimeoutId + 1
                                          ELSE st.nextTimeoutId,
         animation_timeouts |-> IF is_animated
                                THEN MapSet(st.animation_timeouts, tab.id,
                                            st.nextTimeoutId)
                                ELSE st.animation_timeouts,
         pageActionIcon |-> MapSet(st.pageActionIcon, tab.id, path),
         browserActionIcon |-> MapSet(st.browserActionIcon, tab.id, path)]

\* Variant: the still-frame branch deletes the entry of the cleared timer.
UpdatePageActionIconDeletes(st, tab, is_animated, dark, now) ==
    LET cleared == CancelPending(st.timers, st.animation_timeouts, tab.id)
        path == IF is_animated THEN AnimatedPath(tab.status, dark, now)
                               ELSE StaticPath(tab.status, dark)
    IN  [timers |-> IF is_animated
                    THEN SetTimeout(cleared, st.nextTimeoutId, tab, now)
                    ELSE cleared,
         nextTimeoutId |-> IF is_animated THEN st.nextTimeoutId + 1
                                          ELSE st.nextTimeoutId,
         animation_timeouts |-> IF is_animated
                                THEN MapSet(st.animation_timeouts, tab.id,
                                            st.nextTimeoutId)
                                ELSE MapDelete(st.animation_timeouts, tab.id),
         pageActionIcon |-> MapSet(st.pageActionIcon, tab.id, path),
         browserActionIcon |-> MapSet(st.browserActionIcon, tab.id, path)]

\* update_page_action_icon(tab, is_animated) on icon state st.
UpdatePageActionIcon(st, tab, is_animated, dark, now) ==
    LET cleared == CancelPending(st.timers, st.animation_timeouts, tab.id)
        path == IF is_animated THEN AnimatedPath(tab.status, dark, now)
                               ELSE StaticPath(tab.status, dark)
    IN  [timers |-> IF is_animated
                    THEN SetTimeout(cleared, st.nextTimeoutId, tab, now)
                    ELSE cleared,
         nextTimeoutId |-> IF is_animated THEN st.nextTimeoutId + 1
                                          ELSE st.nextTimeoutId,
         animation_timeouts |-> IF is_animated
                                THEN MapSet(st.animation_timeouts, tab.id,
                                            st.nextTimeoutId)
                                ELSE st.animation_timeouts,
         pageActionIcon |-> MapSet(st.pageActionIcon, tab.id, path),
         browserActionIcon |-> MapSet(st.browserActionIcon, tab.id, path)]

SetIconState(st) ==
    /\ timers' = st.timers
    /\ nextTimeoutId' = st.nextTimeoutId
    /\ animation_timeouts' = st.animation_timeouts
    /\ pageActionIcon' = st.pageActionIcon
    /\ browserActionIcon' = st.browserActionIcon

\* ----------------------------------------------------------------- titles
TitleState == [pageActionShown |-> pageActionShown,
               pageActionTitle |-> pageActionTitle,
               browserActionTitle |-> browserActionTitle]

\* Variant: the title reaches the page action only.
UpdatePageActionOneSurface(tt, tab, title_idle) ==
    LET title == IF tab.status = "loading" THEN <<page_action_title_busy>>
                                           ELSE title_idle
    IN  [pageActionShown |-> tt.pageActionShown \cup {tab.id},
         pageActionTitle |-> MapSet(tt.pageActionTitle, tab.id, title),
         browserActionTitle |-> tt.browserActionTitle]

\* update_page_action(tab) on title state tt.
UpdatePageAction(tt, tab, title_idle) ==
    LET title == IF tab.status = "loading" THEN <<page_action_title_busy>>
                                           ELSE title_idle
    IN  [pageActionShown |-> tt.pageActionShown \cup {tab.id},
         pageActionTitle |-> MapSet(tt.pageActionTitle, tab.id, title),
         browserActionTitle |-> MapSet(tt.browserActionTitle, tab.id, title)]

SetTitleState(tt) ==
    /\ pageActionShown' = tt.pageActionShown
    /\ pageActionTitle' = tt.pageActionTitle
    /\ browserActionTitle' = tt.browserActionTitle

\* ------------------------------------------------------- promises in flight
InFlight(op, tabId, timeStamp) ==
    [op |-> op, tabId |-> tabId, timeStamp |-> timeStamp]

RemoveAt(q, i) == [j \in 1..(Len(q) - 1) |-> IF j < i THEN q[j] ELSE q[j + 1]]

TabObject(t) == [id |-> t, status |-> tabs[t]]

PendingFor(t) == {x \in timers : x.tab.id = t}

\* -------------------------------------------------------------------- Init
\* The state once the script has run: nothing set, three promises pending.
\* The tabs open at that time are any of T.
InitOver(T) ==
    /\ tabs \in UNION {[S -> Statuses] : S \in SUBSET T}
    /\ clock = 0
    /\ timers = {}
    /\ nextTimeoutId = 1
    /\ inflight = <<InFlight("management.getAll", 0, 0),
                    InFlight("runtime.getPlatformInfo", 0, 0),
                    InFlight("startup tabs.query", 0, 0)>>
    /\ events = 0
    /\ is_theme_dark = FALSE
    /\ page_action_title_idle = <<>>
    /\ animation_timeouts = EmptyMap
    /\ navigation_timestamp = EmptyMap
    /\ pageActionShown = {}
    /\ pageActionIcon = EmptyMap
    /\ browserActionIcon = EmptyMap
    /\ pageActionTitle = EmptyMap
    /\ browserActionTitle = EmptyMap
    /\ reported = EmptyMap
    /\ navLog = EmptyMap
    /\ hostCalls = <<>>
    /\ consoleErrors = 0
    /\ themeDetection = <<"pending">>
    /\ enabledTheme = <<>>

\* ------------------------------------------------------- loops over tabs
\* for (const tab of tabs) { update_page_action_icon(tab); }
RECURSIVE IconLoop(_, _, _, _, _)
IconLoop(st, snapshot, todo, dark, now) ==
    IF todo = {} THEN st
    ELSE LET t == Min(todo)
         IN  IconLoop(UpdatePageActionIcon(st, [id |-> t, status |-> snapshot[t]],
                                           TRUE, dark, now),
                      snapshot, todo \ {t}, dark, now)

\* for (const tab of tabs) { update_page_action(tab); ... }
RECURSIVE TitleLoop(_, _, _, _)
TitleLoop(tt, snapshot, todo, title_idle) ==
    IF todo = {} THEN tt
    ELSE LET t == Min(todo)
         IN  TitleLoop(UpdatePageAction(tt, [id |-> t, status |-> snapshot[t]],
                                        title_idle),
                       snapshot, todo \ {t}, title_idle)

\* update_all_page_action_icons(): starts a tabs.query for the refresh.
UpdateAllPageActionIcons(fl) ==
    Append(fl, InFlight("refresh tabs.query", 0, 0))

\* ---------------------------------------------------------- theme watcher
\* Variant: with no enabled theme listed, the dark variant is taken.
GetAllResolvedNoneDark ==
    \E i \in DOMAIN inflight, current \in {<<>>} \cup {<<id>> : id \in ThemeIds} :
        /\ inflight[i].op = "management.getAll"
        /\ IF current = <<>>
           THEN /\ inflight' = RemoveAt(inflight, i)
                /\ themeDetection' = <<"none">>
                /\ is_theme_dark' = TRUE
           ELSE /\ is_theme_dark' = (current[1] \in dark_theme_ids)
                /\ themeDetection' = <<"found", current[1]>>
                /\ inflight' = UpdateAllPageActionIcons(RemoveAt(inflight, i))
        /\ UNCHANGED <<clickVars, enabledTheme, hostVars, iconVars, titleVars, events,
                       page_action_title_idle, navigation_timestamp, reported, navLog>>

\* browser.management.getAll().then(...): current is <<>> when no enabled
\* theme is listed (current_theme.id then throws and the rest is skipped).
GetAllResolved ==
    \E i \in DOMAIN inflight, current \in {<<>>} \cup {<<id>> : id \in ThemeIds} :
        /\ inflight[i].op = "management.getAll"
        /\ IF current = <<>>
           THEN /\ inflight' = RemoveAt(inflight, i)
                /\ themeDetection' = <<"none">>
                /\ UNCHANGED is_theme_dark
           ELSE /\ is_theme_dark' = (current[1] \in dark_theme_ids)
                /\ themeDetection' = <<"found", current[1]>>
                /\ inflight' = UpdateAllPageActionIcons(RemoveAt(inflight, i))
        /\ UNCHANGED <<clickVars, enabledTheme, hostVars, iconVars, titleVars, events,
                       page_action_title_idle, navigation_timestamp, reported, navLog>>

\* browser.management.onEnabled listener.
ManagementOnEnabled ==
    \E info \in [type : {"theme", "extension"}, id : ThemeIds] :
        /\ events' = events + 1
        /\ IF info.type = "theme"
           THEN /\ is_theme_dark' = (info.id \in dark_theme_ids)
                /\ enabledTheme' = <<info.id>>
                /\ inflight' = UpdateAllPageActionIcons(inflight)
           ELSE UNCHANGED <<is_theme_dark, enabledTheme, inflight>>
        /\ UNCHANGED <<clickVars, themeDetection, hostVars, iconVars, titleVars,
                       page_action_title_idle, navigation_timestamp, reported, navLog>>

\* Variant: the refresh reaches one tab only.
RefreshQueryResolvedOneTab ==
    \E i \in DOMAIN inflight :
        /\ inflight[i].op = "refresh tabs.query"
        /\ inflight' = RemoveAt(inflight, i)
        /\ SetIconState(IconLoop(IconState, tabs,
                                 IF tabs = EmptyMap THEN {} ELSE {Min(DOMAIN tabs)},
                                 is_theme_dark, clock))
        /\ UNCHANGED <<clickVars, themeHistory, hostVars, titleVars, events, is_theme_dark,
                       page_action_title_idle, navigation_timestamp, reported, navLog>>

\* tabs.query({}).then(...) inside update_all_page_action_icons.
RefreshQueryResolved ==
    \E i \in DOMAIN inflight :
        /\ inflight[i].op = "refresh tabs.query"
        /\ inflight' = RemoveAt(inflight, i)
        /\ SetIconState(IconLoop(IconState, tabs, DOMAIN tabs, is_theme_dark, clock))
        /\ UNCHANGED <<clickVars, themeHistory, hostVars, titleVars, events, is_theme_dark,
                       page_action_title_idle, navigation_timestamp, reported, navLog>>

\* browser.runtime.getPlatformInfo().then(...); "Cmd" stands for the mac
\* command-key sign.
PlatformInfoResolved ==
    \E i \in DOMAIN inflight, os \in {"mac", "linux"} :
        /\ inflight[i].op = "runtime.getPlatformInfo"
        /\ inflight' = RemoveAt(inflight, i)
        /\ page_action_title_idle' =
               <<[msg |-> "page_action_idle_title",
                  arg |-> IF os = "mac" THEN "Cmd+R" ELSE "Ctrl+R"]>>
        /\ UNCHANGED <<clickVars, themeHistory, hostVars, iconVars, titleVars, events, is_theme_dark,
                       navigation_timestamp, reported, navLog>>

\* Variant: the startup enumeration sets still frames.
StartupQueryResolvedStill ==
    \E i \in DOMAIN inflight :
        /\ inflight[i].op = "startup tabs.query"
        /\ inflight' = RemoveAt(inflight, i)
        /\ SetTitleState(TitleLoop(TitleState, tabs, DOMAIN tabs,
                                   page_action_title_idle))
        /\ SetIconState([IconState EXCEPT
               !.pageActionIcon = [t \in DOMAIN pageActionIcon \cup DOMAIN tabs |->
                                      IF t \in DOMAIN tabs
                                      THEN StaticPath(tabs[t], is_theme_dark)
                                      ELSE pageActionIcon[t]],
               !.browserActionIcon = [t \in DOMAIN browserActionIcon \cup DOMAIN tabs |->
                                      IF t \in DOMAIN tabs
                                      THEN StaticPath(tabs[t], is_theme_dark)
                                      ELSE browserActionIcon[t]]])
        /\ UNCHANGED <<clickVars, themeHistory, hostVars, events, is_theme_dark, page_action_title_idle,
                       navigation_timestamp, reported, navLog>>

\* ------------------------------------------------------ tab action controller
\* browser.tabs.query({}).then(...) at startup.
StartupQueryResolved ==
    \E i \in DOMAIN inflight :
        /\ inflight[i].op = "startup tabs.query"
        /\ inflight' = RemoveAt(inflight, i)
        /\ SetTitleState(TitleLoop(TitleState, tabs, DOMAIN tabs,
                                   page_action_title_idle))
        /\ SetIconState(IconLoop(IconState, tabs, DOMAIN tabs, is_theme_dark, clock))
        /\ UNCHANGED <<clickVars, themeHistory, hostVars, events, is_theme_dark, page_action_title_idle,
                       navigation_timestamp, reported, navLog>>

\* browser.tabs.onCreated listener: the host opens tab t with status s.
TabsOnCreated(t, s) ==
    LET tab == [id |-> t, status |-> s]
    IN  /\ t \notin DOMAIN tabs
        /\ tabs' = MapSet(tabs, t, s)
        /\ events' = events + 1
        /\ SetTitleState(UpdatePageAction(TitleState, tab, page_action_title_idle))
        /\ SetIconState(UpdatePageActionIcon(IconState, tab, TRUE, is_theme_dark,
                                             clock))
        /\ reported' = MapSet(reported, t, s)
        /\ UNCHANGED <<clickVars, themeHistory, clock, inflight, is_theme_dark, page_action_title_idle,
                       navigation_timestamp, navLog>>

\* Variant: the update listener also starts the icon animation.
TabsOnUpdatedAnimated(t, s) ==
    LET tab == [id |-> t, status |-> s]
    IN  /\ t \in DOMAIN tabs
        /\ tabs' = MapSet(tabs, t, s)
        /\ events' = events + 1
        /\ SetTitleState(UpdatePageAction(TitleState, tab, page_action_title_idle))
        /\ SetIconState(UpdatePageActionIcon(IconState, tab, TRUE, is_theme_dark,
                                             clock))
        /\ reported' = MapSet(reported, t, s)
        /\ UNCHANGED <<clickVars, themeHistory, clock, inflight, is_theme_dark, page_action_title_idle,
                       navigation_timestamp, navLog>>

\* browser.tabs.onUpdated listener: the host reports tab t with status s.
TabsOnUpdated(t, s) ==
    LET tab == [id |-> t, status |-> s]
    IN  /\ t \in DOMAIN tabs
        /\ tabs' = MapSet(tabs, t, s)
        /\ events' = events + 1
        /\ SetTitleState(UpdatePageAction(TitleState, tab, page_action_title_idle))
        /\ reported' = MapSet(reported, t, s)
        /\ UNCHANGED <<clickVars, themeHistory, clock, iconVars, inflight, is_theme_dark,
                       page_action_title_idle, navigation_timestamp, navLog>>

\* ---------------------------------------------------- navigation debouncer
\* Variant: the comparison lets a gap of exactly the window snap to stills.
ShouldAnimateOffByOne(timestamps, tabId, timeStamp) ==
    IF MapHas(timestamps, tabId)
    THEN LET diff == timeStamp - timestamps[tabId]
         IN  ~(diff <= DebounceWindow)
    ELSE TRUE

\* Variant: every navigation animates.
ShouldAnimateAlways(timestamps, tabId, timeStamp) == TRUE

\* The decision of on_navigation's continuation.
ShouldAnimate(timestamps, tabId, timeStamp) ==
    IF MapHas(timestamps, tabId)
    THEN LET diff == timeStamp - timestamps[tabId]
         IN  ~(diff < DebounceWindow)
    ELSE TRUE

\* Variant: a sub-frame navigation records its timestamp.
OnNavigationRecordsSubFrame(t, frameId) ==
    /\ t \in DOMAIN tabs
    /\ events' = events + 1
    /\ IF frameId # 0
       THEN /\ navigation_timestamp' = MapSet(navigation_timestamp, t, clock)
            /\ UNCHANGED inflight
       ELSE /\ inflight' = Append(inflight, InFlight("tabs.get", t, clock))
            /\ UNCHANGED navigation_timestamp
    /\ UNCHANGED <<clickVars, themeHistory, hostVars, iconVars, titleVars,
                   is_theme_dark, page_action_title_idle, reported, navLog>>

\* on_navigation(details), up to the call of browser.tabs.get: the events
\* onBeforeNavigate, onCompleted and onErrorOccurred share this listener.
OnNavigation(t, frameId) ==
    /\ t \in DOMAIN tabs
    /\ events' = events + 1
    /\ IF frameId # 0
       THEN UNCHANGED inflight
       ELSE inflight' = Append(inflight, InFlight("tabs.get", t, clock))
    /\ UNCHANGED <<clickVars, themeHistory, hostVars, iconVars, titleVars, is_theme_dark,
                   page_action_title_idle, navigation_timestamp, reported, navLog>>

\* The continuation of browser.tabs.get(details.tabId) in on_navigation.
TabsGetResolved ==
    \E i \in DOMAIN inflight :
        /\ inflight[i].op = "tabs.get"
        /\ LET details == inflight[i]
               tab == TabObject(details.tabId)
               should_animate == ShouldAnimate(navigation_timestamp, details.tabId,
                                               details.timeStamp)
           IN  /\ SetTitleState(UpdatePageAction(TitleState, tab,
                                                 page_action_title_idle))
               /\ SetIconState(UpdatePageActionIcon(IconState, tab, should_animate,
                                                    is_theme_dark, clock))
               /\ navigation_timestamp' = MapSet(navigation_timestamp,
                                                 details.tabId, details.timeStamp)
               /\ reported' = MapSet(reported, details.tabId, tab.status)
               /\ navLog' = MapSet(navLog, details.tabId,
                                   Append(IF MapHas(navLog, details.tabId)
                                          THEN navLog[details.tabId] ELSE <<>>,
                                          [timeStamp |-> details.timeStamp,
                                           animated |-> should_animate]))
        /\ inflight' = RemoveAt(inflight, i)
        /\ UNCHANGED <<clickVars, themeHistory, hostVars, events, is_theme_dark, page_action_title_idle>>

\* ------------------------------------------------------------------ click
\* Variant: the click also sets the still frame of the tab's status.
OnActionClickedSetsIcon(t) ==
    /\ t \in DOMAIN tabs
    /\ events' = events + 1
    /\ hostCalls' = Append(hostCalls, [op |-> IF tabs[t] = "loading"
                                              THEN "tabs.executeScript"
                                              ELSE "tabs.reload",
                                       tab |-> t])
    /\ inflight' = IF tabs[t] = "loading"
                   THEN Append(inflight, InFlight("tabs.executeScript", t, 0))
                   ELSE inflight
    /\ SetIconState(UpdatePageActionIcon(IconState, TabObject(t), FALSE,
                                         is_theme_dark, clock))
    /\ UNCHANGED <<hostVars, titleVars, is_theme_dark, page_action_title_idle,
                   navigation_timestamp, reported, navLog, consoleErrors,
                   themeHistory>>

\* on_action_clicked(tab), the pageAction.onClicked and browserAction.onClicked
\* listener.  The host passes the active tab; executeScript and reload are
\* called without a tab id and so address the active tab as well.  The
\* promise of tabs.reload is dropped.
OnActionClicked(t) ==
    /\ t \in DOMAIN tabs
    /\ events' = events + 1
    /\ IF tabs[t] = "loading"
       THEN /\ hostCalls' = Append(hostCalls,
                                    [op |-> "tabs.executeScript", tab |-> t])
            /\ inflight' = Append(inflight, InFlight("tabs.executeScript", t, 0))
       ELSE /\ hostCalls' = Append(hostCalls, [op |-> "tabs.reload", tab |-> t])
            /\ UNCHANGED inflight
    /\ UNCHANGED <<hostVars, iconVars, titleVars, is_theme_dark,
                   page_action_title_idle, navigation_timestamp, reported, navLog,
                   consoleErrors, themeHistory>>

\* The promise of tabs.executeScript settles: fulfilled, or rejected (a
\* privileged page) and then caught with console.error.
ExecuteScriptSettled ==
    \E i \in DOMAIN inflight, fulfilled \in BOOLEAN :
        /\ inflight[i].op = "tabs.executeScript"
        /\ inflight' = RemoveAt(inflight, i)
        /\ consoleErrors' = IF fulfilled THEN consoleErrors ELSE consoleErrors + 1
        /\ UNCHANGED <<hostVars, iconVars, titleVars, events, is_theme_dark,
                       page_action_title_idle, navigation_timestamp, reported, navLog,
                       hostCalls, themeHistory>>

\* ------------------------------------------------------------ settle timer
\* Variant: the callback leaves its entry in animation_timeouts.
TimerFiredKeepsEntry ==
    \E x \in timers :
        /\ clock >= x.due
        /\ SetIconState(UpdatePageActionIcon([IconState EXCEPT !.timers = timers \ {x}],
                                             x.tab, FALSE, is_theme_dark, clock))
        /\ UNCHANGED <<clickVars, themeHistory, hostVars, titleVars, inflight, events, is_theme_dark,
                       page_action_title_idle, navigation_timestamp, reported, navLog>>

\* The setTimeout callback: update_page_action_icon(tab, false), then
\* animation_timeouts.delete(tab.id).
TimerFired ==
    \E x \in timers :
        /\ clock >= x.due
        /\ LET st == UpdatePageActionIcon([IconState EXCEPT !.timers = timers \ {x}],
                                          x.tab, FALSE, is_theme_dark, clock)
           IN  SetIconState([st EXCEPT !.animation_timeouts =
                                          MapDelete(st.animation_timeouts, x.tab.id)])
        /\ UNCHANGED <<clickVars, themeHistory, hostVars, titleVars, inflight, events, is_theme_dark,
                       page_action_title_idle, navigation_timestamp, reported, navLog>>

\* Time passes.
Tick ==
    \E d \in Ticks :
        /\ clock + d <= MaxTicks * d
        /\ clock' = clock + d
        /\ UNCHANGED <<clickVars, themeHistory, tabs, iconVars, titleVars, inflight, events, is_theme_dark,
                       page_action_title_idle, navigation_timestamp, reported, navLog>>

\* The steps with tab ids T and at most max host events.
NextOver(T, max) ==
    \/ GetAllResolved
    \/ events < max /\ ManagementOnEnabled
    \/ RefreshQueryResolved
    \/ PlatformInfoResolved
    \/ StartupQueryResolved
    \/ events < max /\ \E t \in T, s \in Statuses : TabsOnCreated(t, s)
    \/ events < max /\ \E t \in T, s \in Statuses : TabsOnUpdated(t, s)
    \/ events < max /\ \E t \in T, frameId \in {0, 1} : OnNavigation(t, frameId)
    \/ TabsGetResolved
    \/ TimerFired
    \/ Tick

\* One tab, every kind of event.
Init == InitOver(OneTab)
Next == NextOver(OneTab, MaxEvents)
Spec == Init /\ [][Next]_vars

\* Two tabs, every kind of event.
TwoTabInit == InitOver(Tabs)
TwoTabNext == NextOver(Tabs, MaxTabsEvents)
TwoTabSpec == TwoTabInit /\ [][TwoTabNext]_vars

\* One tab whose only events are navigations.
NavNext ==
    \/ GetAllResolved
    \/ RefreshQueryResolved
    \/ PlatformInfoResolved
    \/ StartupQueryResolved
    \/ events < MaxNavigations /\ \E t \in OneTab, frameId \in {0, 1} : OnNavigation(t, frameId)
    \/ TabsGetResolved
    \/ TimerFired
    \/ Tick
NavSpec == Init /\ [][NavNext]_vars

\* The event loop runs a timer that is due, and time does not stop.
FairSpec == Spec /\ WF_vars(TimerFired) /\ WF_vars(Tick)

\* One tab; clicks, updates and navigations.
ClickNext ==
    \/ GetAllResolved
    \/ RefreshQueryResolved
    \/ PlatformInfoResolved
    \/ StartupQueryResolved
    \/ events < MaxEvents /\ \E t \in OneTab : OnActionClicked(t)
    \/ ExecuteScriptSettled
    \/ events < MaxEvents /\ \E t \in OneTab, s \in Statuses : TabsOnUpdated(t, s)
    \/ events < MaxEvents /\ \E t \in OneTab, frameId \in {0, 1} : OnNavigation(t, frameId)
    \/ TabsGetResolved
    \/ TimerFired
    \/ Tick
ClickSpec == Init /\ [][ClickNext]_vars

\* Two tabs and management events only, with the clock standing still.
ThemeNext ==
    \/ GetAllResolved
    \/ events < MaxThemeEvents /\ ManagementOnEnabled
    \/ RefreshQueryResolved
    \/ PlatformInfoResolved
    \/ StartupQueryResolved
ThemeSpec == TwoTabInit /\ [][ThemeNext]_vars

\* The host resolves the promise of the refresh's tabs.query in the end.
ThemeFairSpec == ThemeSpec /\ WF_vars(RefreshQueryResolved)

\* ================================================================== claims
StaticFiles == {"data/reload_dark.svg", "data/reload_light.svg",
                "data/stop_dark.svg", "data/stop_light.svg"}

\* The navigations of tab t were handled in the order they arrived, with
\* strictly increasing timestamps, and none that arrived earlier is waiting.
HandledInArrivalOrder(t) ==
    /\ \A k \in 2..Len(navLog[t]) :
           navLog[t][k - 1].timeStamp < navLog[t][k].timeStamp
    /\ \A i \in DOMAIN inflight :
           inflight[i].op = "tabs.get" /\ inflight[i].tabId = t
               => inflight[i].timeStamp > navLog[t][Len(navLog[t])].timeStamp

\* C1: when the top-level navigations of a tab are handled in arrival order
\* with strictly increasing timestamps, the first one animates, a later one
\* animates exactly when its timestamp is at least 417 after that of the
\* navigation handled just before it, animated or not, and the timestamp of
\* the last one handled is the recorded one.
C1_DebounceRule ==
    \A t \in DOMAIN navLog :
        HandledInArrivalOrder(t) =>
            /\ \A k \in 1..Len(navLog[t]) :
                   navLog[t][k].animated =
                       (k = 1 \/ navLog[t][k].timeStamp
                                    - navLog[t][k - 1].timeStamp >= DebounceWindow)
            /\ MapHas(navigation_timestamp, t)
            /\ navigation_timestamp[t] = navLog[t][Len(navLog[t])].timeStamp

\* C1 witness: three navigations handled in order; the second, inside the
\* window, did not animate; the third, inside the window of the second but
\* 417 after the animated first, did not animate either.
C1_Witness ==
    \E t \in DOMAIN navLog :
        /\ HandledInArrivalOrder(t)
        /\ Len(navLog[t]) = 3
        /\ navLog[t][1].animated /\ ~navLog[t][2].animated /\ ~navLog[t][3].animated
        /\ navLog[t][3].timeStamp - navLog[t][1].timeStamp >= DebounceWindow

\* C2: at most one settle timer is pending for any tab.
C2_OneTimerPerTab ==
    \A t \in Tabs : Cardinality(PendingFor(t)) <= 1

\* C2 witness: two tabs are open, four timers were scheduled at instant 0, so
\* a tab was animated twice in immediate succession, and each tab has exactly
\* one timer pending.
C2_Witness ==
    /\ clock = 0
    /\ DOMAIN tabs = Tabs
    /\ nextTimeoutId = 5
    /\ \A t \in Tabs : Cardinality(PendingFor(t)) = 1

\* C3: a pending timer is always the one its tab's latest animation
\* scheduled: a timer replaced by a newer animation is no longer pending, so
\* it never fires, applies no icon and removes no entry; ids are not reused.
C3_SupersededTimerNeverFires ==
    \A x \in timers :
        /\ x.id < nextTimeoutId
        /\ MapHas(animation_timeouts, x.tab.id)
        /\ animation_timeouts[x.tab.id] = x.id
        /\ PendingFor(x.tab.id) = {x}

\* C3 witness: at 278 ms, with the first timer of the tab not yet due, a new
\* animation has just replaced it by a timer of its own.
C3_Witness ==
    \E x \in timers :
        /\ clock = 278
        /\ x.id >= 2
        /\ x.due = clock + AnimationDuration
        /\ PendingFor(x.tab.id) = {x}
        /\ DOMAIN tabs = OneTab

StopFiles == {"data/stop_dark.svg", "data/stop_light.svg"}
ReloadFiles == {"data/reload_dark.svg", "data/reload_light.svg"}

\* The step is the continuation of the tabs.get at place i of inflight.
TabsGetStep(i) ==
    /\ inflight[i].op = "tabs.get"
    /\ inflight' = RemoveAt(inflight, i)

\* C4: a top-level navigation handled less than 417 after the recorded
\* navigation timestamp of its tab applies the still frame of the fetched
\* status at once, on both surfaces, cancels the timer pending for the tab
\* and schedules none.
C4_DebouncedSnapsToStill ==
    [][\A i \in DOMAIN inflight :
          LET t == inflight[i].tabId
          IN  (/\ TabsGetStep(i)
               /\ MapHas(navigation_timestamp, t)
               /\ inflight[i].timeStamp - navigation_timestamp[t] < DebounceWindow)
              => /\ pageActionIcon'[t].file \in StaticFiles
                 /\ pageActionIcon'[t].file \in StopFiles <=> tabs[t] = "loading"
                 /\ pageActionIcon'[t].query = <<>>
                 /\ browserActionIcon'[t] = pageActionIcon'[t]
                 /\ {x \in timers' : x.tab.id = t} = {}
                 /\ timers' \subseteq timers
                 /\ nextTimeoutId' = nextTimeoutId]_vars

\* C4 witness: before any timer could fire, the last navigation of a tab was
\* debounced while a timer was pending: the tab shows a still frame, its
\* timer is gone and only the entry of the cancelled timer is left.
C4_Witness ==
    \E t \in DOMAIN navLog :
        /\ clock < AnimationDuration
        /\ ~navLog[t][Len(navLog[t])].animated
        /\ MapHas(animation_timeouts, t)
        /\ PendingFor(t) = {}
        /\ pageActionIcon[t].file \in StaticFiles

\* The step is the callback of timer x.
TimerFireStep(x) ==
    /\ x \notin timers'
    /\ nextTimeoutId' = nextTimeoutId
    /\ inflight' = inflight

\* Latest instant the clock reaches.
Horizon == MaxTicks * Min(Ticks)

\* C5: a settle timer that fires applies the still frame of the status its
\* animation started with (stop when loading, reload otherwise) and leaves
\* neither a timer nor an entry for its tab; and every timer due within the
\* horizon stops being pending: it fires unless a newer update replaces it.
C5_AnimationSettles ==
    /\ [][\A x \in timers :
             TimerFireStep(x) =>
                 LET t == x.tab.id
                 IN  /\ pageActionIcon'[t].file \in
                            (IF x.tab.status = "loading" THEN StopFiles
                                                         ELSE ReloadFiles)
                     /\ pageActionIcon'[t].query = <<>>
                     /\ browserActionIcon'[t] = pageActionIcon'[t]
                     /\ {y \in timers' : y.tab.id = t} = {}
                     /\ ~MapHas(animation_timeouts', t)]_vars
    /\ \A t \in OneTab :
           (\E x \in PendingFor(t) : x.due <= Horizon)
               ~> ~(\E x \in PendingFor(t) : x.due <= Horizon)

\* C5 witness: a timer has fired: an animation was started, the clock passed
\* its length, and neither a timer nor an entry is left while the tab shows
\* the still frame.
C5_Witness ==
    \E t \in DOMAIN pageActionIcon :
        /\ clock >= AnimationDuration
        /\ nextTimeoutId >= 2
        /\ timers = {}
        /\ animation_timeouts = EmptyMap
        /\ pageActionIcon[t].file \in StaticFiles

\* The title a tab of the given status is to show.
IsTitleFor(title, status) ==
    IF status = "loading"
    THEN title = <<page_action_title_busy>>
    ELSE title # <<>> /\ title[1].msg = "page_action_idle_title"

\* C6 (as claimed): when nothing is in flight and no timer is pending for a
\* tab, the icon and the title shown for it are those of the status its last
\* created, updated or navigation event reported: stop icon and busy title
\* when loading, reload icon and idle title otherwise.
C6_IconAndTitleFollowLastEvent ==
    inflight = <<>> =>
        \A t \in DOMAIN reported :
            PendingFor(t) = {} =>
                /\ MapHas(pageActionIcon, t)
                /\ pageActionIcon[t].file \in
                       (IF reported[t] = "loading" THEN StopFiles ELSE ReloadFiles)
                /\ MapHas(pageActionTitle, t)
                /\ IsTitleFor(pageActionTitle[t], reported[t])

\* The step delivers an event that starts no promise, opens no tab and
\* leaves the theme: a tab update, a sub-frame navigation or the enabling of
\* an extension that is no theme.
QuietEventStep ==
    /\ events' = events + 1
    /\ inflight' = inflight
    /\ DOMAIN tabs' = DOMAIN tabs
    /\ is_theme_dark' = is_theme_dark

\* The step is a tab-updated notification for t that has an effect.
UpdatedStep(t) ==
    /\ QuietEventStep
    /\ \/ tabs'[t] # tabs[t]
       \/ ~MapHas(reported, t) /\ MapHas(reported', t)
       \/ MapHas(reported, t) /\ reported'[t] # reported[t]
       \/ ~MapHas(pageActionTitle, t) /\ MapHas(pageActionTitle', t)
       \/ MapHas(pageActionTitle, t) /\ pageActionTitle'[t] # pageActionTitle[t]

\* The step has applied the transition clip to t and scheduled its timer.
AnimatedFor(t) ==
    /\ MapHas(pageActionIcon', t)
    /\ pageActionIcon'[t].file \in TransitionFiles
    /\ pageActionIcon'[t].query = <<"?t=", clock>>
    /\ browserActionIcon'[t] = pageActionIcon'[t]
    /\ \E x \in timers' : /\ x.tab.id = t
                          /\ x.id >= nextTimeoutId
                          /\ x.due = clock + AnimationDuration

C8_UpdatesInArrivalOrder ==
    [][\A t \in DOMAIN tabs :
          /\ UpdatedStep(t) =>
                 \A j \in DOMAIN inflight :
                     ~(inflight[j].op = "tabs.get" /\ inflight[j].tabId = t)
          /\ \A i \in DOMAIN inflight :
                 TabsGetStep(i) /\ inflight[i].tabId = t =>
                     \A j \in 1..(i - 1) :
                         ~(inflight[j].op = "tabs.get" /\ inflight[j].tabId = t)]_vars

\* C9 (as claimed): while its timer is pending, an animated tab shows the
\* reload-to-stop clip if the animation started with status loading and the
\* stop-to-reload clip otherwise, in the light or the dark variant.
C9_ClipMatchesTransition ==
    \A x \in timers :
        /\ MapHas(pageActionIcon, x.tab.id)
        /\ pageActionIcon[x.tab.id].file \in
               (IF x.tab.status = "loading"
                THEN {"data/reload_to_stop_dark.svg", "data/reload_to_stop_light.svg"}
                ELSE {"data/stop_to_reload_dark.svg", "data/stop_to_reload_light.svg"})

\* The step is the continuation of the startup tabs.query.
StartupStep ==
    \E i \in DOMAIN inflight :
        /\ inflight[i].op = "startup tabs.query"
        /\ inflight' = RemoveAt(inflight, i)

\* The step is the creation of tab t.
CreatedStep(t) == t \notin DOMAIN tabs /\ t \in DOMAIN tabs'

\* C10 (as claimed): the startup enumeration applies no transition clip and
\* schedules no timer, and every created or navigation event animates.
C10_StartupDoesNotAnimate ==
    [][/\ StartupStep =>
              /\ \A t \in DOMAIN tabs :
                     pageActionIcon'[t].file \notin TransitionFiles
              /\ timers' = timers
       /\ \A t \in Tabs : CreatedStep(t) => AnimatedFor(t)
       /\ \A i \in DOMAIN inflight :
              TabsGetStep(i) => AnimatedFor(inflight[i].tabId)]_vars

\* C10 (amended): the startup enumeration animates every open tab as a
\* created event does: it applies the transition clip and schedules the
\* settle timer; a navigation event does so unless it comes less than 417
\* after the recorded navigation of its tab.
C10_StartupAnimates ==
    [][/\ StartupStep => \A t \in DOMAIN tabs : AnimatedFor(t)
       /\ \A t \in Tabs : CreatedStep(t) => AnimatedFor(t)
       /\ \A i \in DOMAIN inflight :
              LET t == inflight[i].tabId
              IN  TabsGetStep(i) =>
                      (AnimatedFor(t) <=>
                           ~(/\ MapHas(navigation_timestamp, t)
                             /\ inflight[i].timeStamp
                                    - navigation_timestamp[t] < DebounceWindow))]_vars

\* C10 witness: with no event delivered and the theme detection still in
\* flight, the startup enumeration has left an open tab with the transition
\* clip and a pending timer.
C10_Witness ==
    /\ events = 0
    /\ \E i \in DOMAIN inflight : inflight[i].op = "management.getAll"
    /\ \A i \in DOMAIN inflight : inflight[i].op # "startup tabs.query"
    /\ \E t \in DOMAIN tabs :
           /\ PendingFor(t) # {}
           /\ pageActionIcon[t].file \in TransitionFiles

\* A management event has changed the theme flag.
ThemeChangeStep ==
    /\ events' = events + 1
    /\ is_theme_dark' # is_theme_dark

\* The step is the continuation of the refresh's tabs.query inflight[i].
RefreshStep(i) ==
    /\ inflight[i].op = "refresh tabs.query"
    /\ inflight' = RemoveAt(inflight, i)

RefreshInFlight ==
    \E i \in DOMAIN inflight : inflight[i].op = "refresh tabs.query"

\* The transition clips of one theme variant.
VariantFiles(dark) ==
    IF dark
    THEN {"data/reload_to_stop_dark.svg", "data/stop_to_reload_dark.svg"}
    ELSE {"data/reload_to_stop_light.svg", "data/stop_to_reload_light.svg"}

\* C11: a theme-enable event that changes the theme flag starts a refresh;
\* the refresh, once its query resolves, applies an animated icon of the
\* flag's variant to every open tab; and a refresh that was started is
\* applied in the end.
C11_ThemeRefreshesEveryTab ==
    /\ [][ThemeChangeStep =>
             /\ Len(inflight') = Len(inflight) + 1
             /\ inflight'[Len(inflight')].op = "refresh tabs.query"]_vars
    /\ [][\A i \in DOMAIN inflight :
             RefreshStep(i) =>
                 \A t \in DOMAIN tabs :
                     /\ AnimatedFor(t)
                     /\ pageActionIcon'[t].file \in VariantFiles(is_theme_dark)]_vars
    /\ RefreshInFlight ~> ~RefreshInFlight

\* C11 witness: with the startup detection still in flight, a theme-enable
\* event has set the flag and its refresh has given both open tabs the dark
\* transition clip.
C11_Witness ==
    /\ DOMAIN tabs = Tabs
    /\ is_theme_dark
    /\ events >= 1
    /\ \E i \in DOMAIN inflight : inflight[i].op = "management.getAll"
    /\ ~RefreshInFlight
    /\ \A t \in Tabs : /\ MapHas(pageActionIcon, t)
                       /\ pageActionIcon[t].file \in VariantFiles(TRUE)
                       /\ PendingFor(t) # {}

\* C12: the page action and the browser action of a tab always carry the
\* same icon and the same title: whatever is set on one is set on the other.
C12_SurfacesIdentical ==
    /\ browserActionIcon = pageActionIcon
    /\ browserActionTitle = pageActionTitle

\* C12 witness: after an event, a tab whose animation has settled shows the
\* stop frame and the busy title on both surfaces.
C12_Witness ==
    \E t \in DOMAIN tabs :
        /\ events >= 1
        /\ MapHas(pageActionIcon, t) /\ MapHas(browserActionIcon, t)
        /\ pageActionIcon[t].file \in StopFiles
        /\ MapHas(pageActionTitle, t) /\ MapHas(browserActionTitle, t)
        /\ pageActionTitle[t] = <<page_action_title_busy>>

\* C13 (as claimed): the undefined idle title is never set as the title of
\* a tab, on either surface.
C13_UndefinedTitleNeverSet ==
    \A t \in DOMAIN pageActionTitle \cup DOMAIN browserActionTitle :
        /\ MapHas(pageActionTitle, t) => pageActionTitle[t] # <<>>
        /\ MapHas(browserActionTitle, t) => browserActionTitle[t] # <<>>

\* The step is a click on the action of tab t.
ClickStep(t) ==
    /\ Len(hostCalls') = Len(hostCalls) + 1
    /\ hostCalls'[Len(hostCalls')].tab = t

\* The step settles the tabs.executeScript promise inflight[i].
ExecuteScriptStep(i) ==
    /\ inflight[i].op = "tabs.executeScript"
    /\ inflight' = RemoveAt(inflight, i)

\* C14: a click on a loading tab asks the host to run window.stop() in the
\* tab and a click on an idle tab asks for a reload; neither the click nor
\* the outcome of the stop request touches an icon, a title, a timer, the
\* timer map or the navigation timestamps; a failed stop request is logged
\* and nothing else, and after it every listener still handles its events.
C14_ClickRequestsOnly ==
    /\ [][\A t \in DOMAIN tabs :
             ClickStep(t) =>
                 /\ hostCalls' = Append(hostCalls,
                                        [op |-> IF tabs[t] = "loading"
                                                THEN "tabs.executeScript"
                                                ELSE "tabs.reload",
                                         tab |-> t])
                 /\ UNCHANGED <<iconVars, titleVars, navigation_timestamp>>]_vars
    /\ [][\A i \in DOMAIN inflight :
             ExecuteScriptStep(i) =>
                 /\ consoleErrors' \in {consoleErrors, consoleErrors + 1}
                 /\ UNCHANGED <<iconVars, titleVars, navigation_timestamp,
                                hostCalls, tabs, events>>]_vars
    /\ [](consoleErrors > 0 =>
              \A t \in DOMAIN tabs :
                  /\ ENABLED OnActionClicked(t)
                  /\ ENABLED TabsOnUpdated(t, "loading")
                  /\ ENABLED OnNavigation(t, 0))

\* C14 witness: the stop request of a click has failed and was logged, a
\* navigation of the tab has been handled and its settle timer is pending.
C14_Witness ==
    \E t \in DOMAIN tabs :
        /\ consoleErrors = 1
        /\ hostCalls = <<[op |-> "tabs.executeScript", tab |-> t]>>
        /\ MapHas(navigation_timestamp, t)
        /\ PendingFor(t) # {}

\* With navigations the only events: the step is a sub-frame navigation.
SubFrameStep ==
    /\ events' = events + 1
    /\ inflight' = inflight

\* C15: a navigation of a sub-frame changes nothing: the navigation
\* timestamps, the timer map, the pending timers, the icons and the titles
\* stay as they are, and the timestamp recorded for a tab is always that of
\* the top-level navigation handled last.
C15_SubFrameNavigationIgnored ==
    /\ [][SubFrameStep =>
             UNCHANGED <<navigation_timestamp, iconVars, titleVars, tabs, clock,
                         is_theme_dark, page_action_title_idle>>]_vars
    /\ [](/\ DOMAIN navigation_timestamp = DOMAIN navLog
          /\ \A t \in DOMAIN navLog :
                 navigation_timestamp[t] = navLog[t][Len(navLog[t])].timeStamp)

\* C15 witness: of three navigations of a tab one was top-level; its timer
\* is pending and its timestamp is the recorded one, while the clock has
\* moved on.
C15_Witness ==
    \E t \in DOMAIN navLog :
        /\ events = 3
        /\ Len(navLog[t]) = 1
        /\ \A i \in DOMAIN inflight : inflight[i].op # "tabs.get"
        /\ PendingFor(t) # {}
        /\ navigation_timestamp[t] = 0
        /\ clock > 0

\* The step has started an animation of tab t: a timer was scheduled for it.
AnimationStartStep(t) ==
    /\ nextTimeoutId' > nextTimeoutId
    /\ MapHas(animation_timeouts', t)
    /\ animation_timeouts'[t] >= nextTimeoutId

\* C16 (as claimed): an animated icon update of a tab that shows a
\* transition clip sets an asset identifier different from the one shown,
\* whatever the status, the theme and the clock.
C16_AnimatedPathsDiffer ==
    [][\A t \in DOMAIN tabs :
          (/\ AnimationStartStep(t)
           /\ MapHas(pageActionIcon, t)
           /\ pageActionIcon[t].file \in TransitionFiles)
              => pageActionIcon'[t] # pageActionIcon[t]]_vars

\* The light variants of the icons.
LightFiles == {"data/reload_to_stop_light.svg", "data/stop_to_reload_light.svg",
               "data/reload_light.svg", "data/stop_light.svg"}

\* The step is the continuation of management.getAll with no theme enabled.
GetAllNoneStep ==
    /\ themeDetection = <<"pending">>
    /\ themeDetection' = <<"none">>

\* C17: when management.getAll lists no enabled theme, the continuation
\* ends without an effect: the theme flag keeps its value, which is false
\* unless a theme was enabled meanwhile, the icons set while it is false are
\* the light ones, and every listener still handles its events.
C17_NoEnabledTheme ==
    /\ [][GetAllNoneStep =>
             /\ is_theme_dark' = is_theme_dark
             /\ \E i \in DOMAIN inflight : inflight' = RemoveAt(inflight, i)
             /\ UNCHANGED <<iconVars, titleVars, navigation_timestamp, tabs>>]_vars
    /\ [](themeDetection = <<"none">> =>
              /\ enabledTheme = <<>> => ~is_theme_dark
              /\ \A t \in DOMAIN tabs :
                     /\ ENABLED TabsOnUpdated(t, "loading")
                     /\ ENABLED OnNavigation(t, 0)
                     /\ ENABLED OnActionClicked(t)
              /\ ENABLED ManagementOnEnabled
              /\ \E t \in OneTab : t \in DOMAIN tabs \/ ENABLED TabsOnCreated(t, "loading"))
    /\ [][(themeDetection' = <<"none">> /\ enabledTheme' = <<>>) =>
             \A t \in DOMAIN pageActionIcon' :
                 (~MapHas(pageActionIcon, t) \/ pageActionIcon'[t] # pageActionIcon[t])
                     => pageActionIcon'[t].file \in LightFiles]_vars

\* C17 witness: the detection found no theme, no theme was enabled since,
\* and a later event of the open tab was handled: it shows a light clip.
C17_Witness ==
    \E t \in DOMAIN tabs :
        /\ themeDetection = <<"none">>
        /\ enabledTheme = <<>>
        /\ events >= 1
        /\ MapHas(navigation_timestamp, t)
        /\ pageActionIcon[t].file \in LightFiles \cap TransitionFiles

\* C18 (as claimed): once the startup detection has resolved, the theme
\* flag tells whether the theme enabled last is a dark one; when no theme
\* was enabled since startup, whether the theme the detection found is.
C18_FlagFollowsLastEnabledTheme ==
    themeDetection # <<"pending">> =>
        is_theme_dark =
            IF enabledTheme # <<>> THEN enabledTheme[1] \in dark_theme_ids
            ELSE IF themeDetection[1] = "found"
                 THEN themeDetection[2] \in dark_theme_ids
                 ELSE FALSE

\* C19 (as claimed): animation_timeouts has an entry for a tab exactly when
\* a settle timer is pending for that tab.
C19_EntryIffTimerPending ==
    \A t \in Tabs : MapHas(animation_timeouts, t) <=> PendingFor(t) # {}

\* C19 (amended): a pending timer of a tab has its id in the tab's entry of
\* animation_timeouts, and the callback of a timer deletes the entry; but a
\* still-frame update that cancels a pending timer leaves the entry, which
\* then names no pending timer while the tab shows a still frame, until the
\* next animated update of the tab overwrites it.
C19_EntryOutlivesCancelledTimer ==
    /\ [](\A t \in DOMAIN animation_timeouts :
              IF PendingFor(t) # {}
              THEN \A x \in PendingFor(t) : animation_timeouts[t] = x.id
              ELSE /\ pageActionIcon[t].file \in StaticFiles
                   /\ \A x \in timers : x.id # animation_timeouts[t])
    /\ [](\A x \in timers : MapHas(animation_timeouts, x.tab.id))
    /\ [][\A x \in timers :
             TimerFireStep(x) => ~MapHas(animation_timeouts', x.tab.id)]_vars
    /\ [][\A i \in DOMAIN inflight :
             LET t == inflight[i].tabId
             IN  (/\ TabsGetStep(i)
                  /\ MapHas(navigation_timestamp, t)
                  /\ inflight[i].timeStamp - navigation_timestamp[t] < DebounceWindow
                  /\ MapHas(animation_timeouts, t))
                 => /\ MapHas(animation_timeouts', t)
                    /\ animation_timeouts'[t] = animation_timeouts[t]
                    /\ PendingFor(t)' = {}]_vars

\* C19 witness: the timer of a tab was cancelled by a debounced navigation
\* and its entry is still in the map.
C19_Witness ==
    \E t \in DOMAIN navLog :
        /\ MapHas(animation_timeouts, t)
        /\ PendingFor(t) = {}
        /\ ~navLog[t][Len(navLog[t])].animated

====
